---------------------------- MODULE Spec2Model ----------------------------
(***************************************************************************)
(* gpui_markdown_preview: the MarkdownView of src/main.rs.                 *)
(*                                                                         *)
(* MarkdownView::from spawns a foreground task that owns a background      *)
(* parse of its own copy of the text, awaits the parsed document and       *)
(* delivers it to the view through a weak handle.  The view keeps the      *)
(* task handle in parsing_markdown_task until the delivery takes it.       *)
(* Render maps render_markdown_block over the children of contents.        *)
(*                                                                         *)
(* The framework's part is modelled by what the calls in main.rs rely on:  *)
(*   - a Task handle that is dropped cancels its future if the future has  *)
(*     not completed, and discards the output if it has;                   *)
(*   - WeakView::update fails once the last strong handle is gone;         *)
(*   - an entity whose last strong handle is gone is released (its state   *)
(*     dropped) at a later point of the interactive thread.                *)
(***************************************************************************)
EXTENDS Naturals, Sequences, FiniteSets

\* Number of views created with MarkdownView::from.
NumViews == 1

\* Longest source text, in lines.
MaxLen == 2

Views == 1..NumViews

\* The kinds of source line the modelled parser tells apart.
LineKinds == {"heading", "text"}

\* The source texts MarkdownView::from is given.
Texts == UNION {[1..n -> LineKinds] : n \in 0..MaxLen}

\* Option<T>
None == <<>>

Some(x) == <<x>>

IsSome(o) == o # None

Unwrap(o) == o[1]

----------------------------------------------------------------------------
(* parse_markdown: the block parser (markdown_preview::markdown_parser).   *)
(* A heading is one line; consecutive text lines are joined into one       *)
(* paragraph.  Every block carries the line span it was derived from.      *)

RECURSIVE ParagraphEnd(_, _)
ParagraphEnd(text, i) ==
    IF i < Len(text) /\ text[i + 1] = "text"
    THEN ParagraphEnd(text, i + 1)
    ELSE i

RECURSIVE ParseBlocks(_, _)
ParseBlocks(text, i) ==
    IF i > Len(text) THEN <<>>
    ELSE IF text[i] = "heading"
         THEN <<[kind |-> "Heading", first |-> i, last |-> i]>>
              \o ParseBlocks(text, i + 1)
    ELSE LET j == ParagraphEnd(text, i)
         IN  <<[kind |-> "Paragraph", first |-> i, last |-> j]>>
             \o ParseBlocks(text, j + 1)

parse_markdown(text) == [children |-> ParseBlocks(text, 1)]

----------------------------------------------------------------------------
VARIABLES
    view,                   \* the entity behind each view handle
    raw_text,               \* MarkdownView.raw_text
    contents,               \* MarkdownView.contents
    parsing_markdown_task,  \* MarkdownView.parsing_markdown_task
    parsed,                 \* the background task spawned at line 184
    task,                   \* the foreground task spawned at line 180
    notified,               \* cx.notify() called and not yet drawn
    deliveries,             \* times the update closure of line 189 has run
    last_render             \* what the last render pass of the view produced

vars == <<view, raw_text, contents, parsing_markdown_task, parsed, task,
          notified, deliveries, last_render>>

\* A background task that does not exist (before from, after it is dropped).
NoParse == [status |-> "none", text |-> <<>>, content |-> None]

\* No render pass yet.
NoRender == [element |-> "none", calls |-> <<>>]

\* A view whose struct exists: created and not yet released.
Live(v) == view[v] \in {"alive", "dropped"}

Init ==
    /\ view = [v \in Views |-> "absent"]
    /\ raw_text = [v \in Views |-> <<>>]
    /\ contents = [v \in Views |-> None]
    /\ parsing_markdown_task = [v \in Views |-> None]
    /\ parsed = [v \in Views |-> NoParse]
    /\ task = [v \in Views |-> "none"]
    /\ notified = [v \in Views |-> FALSE]
    /\ deliveries = [v \in Views |-> 0]
    /\ last_render = [v \in Views |-> NoRender]

----------------------------------------------------------------------------
(* MarkdownView::from(text, cx), called in cx.new_view: cx.spawn calls the *)
(* closure at once, which clones the text and spawns the background parse; *)
(* the returned future is scheduled on the interactive thread.  The struct *)
(* holds the text, no contents and the task handle.                        *)

FromWrongText(v, text) ==
    /\ view[v] = "absent"
    /\ view' = [view EXCEPT ![v] = "alive"]
    /\ parsed' = [parsed EXCEPT ![v] =
                    [status |-> "running", text |-> <<>>, content |-> None]]
    /\ task' = [task EXCEPT ![v] = "pending"]
    /\ raw_text' = [raw_text EXCEPT ![v] = text]
    /\ contents' = [contents EXCEPT ![v] = None]
    /\ parsing_markdown_task' = [parsing_markdown_task EXCEPT ![v] = Some(v)]
    /\ UNCHANGED <<notified, deliveries, last_render>>

FromNoTask(v, text) ==
    /\ view[v] = "absent"
    /\ view' = [view EXCEPT ![v] = "alive"]
    /\ parsed' = [parsed EXCEPT ![v] =
                    [status |-> "running", text |-> text, content |-> None]]
    /\ task' = [task EXCEPT ![v] = "pending"]
    /\ raw_text' = [raw_text EXCEPT ![v] = text]
    /\ contents' = [contents EXCEPT ![v] = None]
    /\ parsing_markdown_task' = [parsing_markdown_task EXCEPT ![v] = None]
    /\ UNCHANGED <<notified, deliveries, last_render>>

From(v, text) ==
    /\ view[v] = "absent"
    /\ view' = [view EXCEPT ![v] = "alive"]
    /\ parsed' = [parsed EXCEPT ![v] =
                    [status |-> "running", text |-> text, content |-> None]]
    /\ task' = [task EXCEPT ![v] = "pending"]
    /\ raw_text' = [raw_text EXCEPT ![v] = text]
    /\ contents' = [contents EXCEPT ![v] = None]
    /\ parsing_markdown_task' = [parsing_markdown_task EXCEPT ![v] = Some(v)]
    /\ UNCHANGED <<notified, deliveries, last_render>>

(* The background executor runs parse_markdown(&text, None, None) on the   *)
(* task's own copy of the text.                                            *)
BackgroundParse(v) ==
    /\ parsed[v].status = "running"
    /\ parsed' = [parsed EXCEPT ![v] =
                    [status |-> "ready", text |-> <<>>,
                     content |-> Some(parse_markdown(parsed[v].text))]]
    /\ UNCHANGED <<view, raw_text, contents, parsing_markdown_task, task,
                   notified, deliveries, last_render>>

(* The foreground future resumes after parsed.await and calls               *)
(* markdown_view.update.  With the view alive the closure takes (drops)    *)
(* the task handle, sets contents and notifies; the future then completes  *)
(* with Ok(()) and, its handle being gone, the output is discarded.  With  *)
(* the last strong handle gone the update returns Err, the parsed document *)
(* is dropped and the Err is stored in the task for whoever holds its      *)
(* handle.                                                                 *)

DeliverRepeats(v) ==
    /\ task[v] = "pending"
    /\ parsed[v].status = "ready"
    /\ deliveries[v] < 3
    /\ IF view[v] = "alive"
       THEN /\ parsing_markdown_task' =
                   [parsing_markdown_task EXCEPT ![v] = None]
            /\ contents' = [contents EXCEPT ![v] = parsed[v].content]
            /\ notified' = [notified EXCEPT ![v] = TRUE]
            /\ deliveries' = [deliveries EXCEPT ![v] = @ + 1]
            /\ UNCHANGED <<task, parsed>>
       ELSE /\ task' = [task EXCEPT ![v] = "err_stored"]
            /\ parsed' = [parsed EXCEPT ![v] =
                    [status |-> "taken", text |-> <<>>, content |-> None]]
            /\ UNCHANGED <<parsing_markdown_task, contents, notified,
                           deliveries>>
    /\ UNCHANGED <<view, raw_text, last_render>>

DeliverUnchecked(v) ==
    /\ task[v] = "pending"
    /\ parsed[v].status = "ready"
    /\ parsed' = [parsed EXCEPT ![v] =
                    [status |-> "taken", text |-> <<>>, content |-> None]]
    /\ parsing_markdown_task' = [parsing_markdown_task EXCEPT ![v] = None]
    /\ contents' = [contents EXCEPT ![v] = parsed[v].content]
    /\ notified' = [notified EXCEPT ![v] = TRUE]
    /\ deliveries' = [deliveries EXCEPT ![v] = @ + 1]
    /\ task' = [task EXCEPT ![v] = "ok_discarded"]
    /\ UNCHANGED <<view, raw_text, last_render>>

DeliverKeepsTask(v) ==
    /\ task[v] = "pending"
    /\ parsed[v].status = "ready"
    /\ parsed' = [parsed EXCEPT ![v] =
                    [status |-> "taken", text |-> <<>>, content |-> None]]
    /\ IF view[v] = "alive"
       THEN /\ contents' = [contents EXCEPT ![v] = parsed[v].content]
            /\ notified' = [notified EXCEPT ![v] = TRUE]
            /\ deliveries' = [deliveries EXCEPT ![v] = @ + 1]
            /\ task' = [task EXCEPT ![v] = "ok_stored"]
            /\ UNCHANGED parsing_markdown_task
       ELSE /\ task' = [task EXCEPT ![v] = "err_stored"]
            /\ UNCHANGED <<parsing_markdown_task, contents, notified,
                           deliveries>>
    /\ UNCHANGED <<view, raw_text, last_render>>

DeliverNoNotify(v) ==
    /\ task[v] = "pending"
    /\ parsed[v].status = "ready"
    /\ parsed' = [parsed EXCEPT ![v] =
                    [status |-> "taken", text |-> <<>>, content |-> None]]
    /\ IF view[v] = "alive"
       THEN /\ parsing_markdown_task' =
                   [parsing_markdown_task EXCEPT ![v] = None]
            /\ contents' = [contents EXCEPT ![v] = parsed[v].content]
            /\ deliveries' = [deliveries EXCEPT ![v] = @ + 1]
            /\ task' = [task EXCEPT ![v] = "ok_discarded"]
            /\ UNCHANGED notified
       ELSE /\ task' = [task EXCEPT ![v] = "err_stored"]
            /\ UNCHANGED <<parsing_markdown_task, contents, notified,
                           deliveries>>
    /\ UNCHANGED <<view, raw_text, last_render>>

Deliver(v) ==
    /\ task[v] = "pending"
    /\ parsed[v].status = "ready"
    /\ parsed' = [parsed EXCEPT ![v] =
                    [status |-> "taken", text |-> <<>>, content |-> None]]
    /\ IF view[v] = "alive"
       THEN /\ parsing_markdown_task' =
                   [parsing_markdown_task EXCEPT ![v] = None]
            /\ contents' = [contents EXCEPT ![v] = parsed[v].content]
            /\ notified' = [notified EXCEPT ![v] = TRUE]
            /\ deliveries' = [deliveries EXCEPT ![v] = @ + 1]
            /\ task' = [task EXCEPT ![v] = "ok_discarded"]
       ELSE /\ task' = [task EXCEPT ![v] = "err_stored"]
            /\ UNCHANGED <<parsing_markdown_task, contents, notified,
                           deliveries>>
    /\ UNCHANGED <<view, raw_text, last_render>>

(* The window, which holds the only strong handle of the view it was       *)
(* opened with, lets go of it.                                             *)
DropView(v) ==
    /\ view[v] = "alive"
    /\ view' = [view EXCEPT ![v] = "dropped"]
    /\ UNCHANGED <<raw_text, contents, parsing_markdown_task, parsed, task,
                   notified, deliveries, last_render>>

(* The entity is released: the struct and its fields are dropped.  A task  *)
(* handle still held is dropped with it, which cancels a future that has   *)
(* not completed (and with it the background parse it owns) and discards   *)
(* the output of one that has.                                             *)
ReleaseEntity(v) ==
    /\ view[v] = "dropped"
    /\ view' = [view EXCEPT ![v] = "released"]
    /\ raw_text' = [raw_text EXCEPT ![v] = <<>>]
    /\ contents' = [contents EXCEPT ![v] = None]
    /\ parsing_markdown_task' = [parsing_markdown_task EXCEPT ![v] = None]
    /\ notified' = [notified EXCEPT ![v] = FALSE]
    /\ IF IsSome(parsing_markdown_task[v])
       THEN /\ task' = [task EXCEPT ![v] =
                          CASE @ = "pending" -> "cancelled"
                            [] @ = "err_stored" -> "err_discarded"
                            [] @ = "ok_stored" -> "ok_discarded"
                            [] OTHER -> @]
            /\ parsed' = [parsed EXCEPT ![v] =
                            IF task[v] = "pending"
                            THEN [status |-> "cancelled", text |-> <<>>,
                                  content |-> None]
                            ELSE @]
       ELSE UNCHANGED <<task, parsed>>
    /\ UNCHANGED <<deliveries, last_render>>

(* The children of the preview element: render_markdown_block mapped over  *)
(* parsed.children.iter().                                                 *)
RenderChildrenReversed(children) ==
    [i \in 1..Len(children) |-> children[Len(children) + 1 - i]]

RECURSIVE RenderChildren(_)
RenderChildren(children) ==
    IF children = <<>> THEN <<>>
    ELSE <<Head(children)>> \o RenderChildren(Tail(children))

(* Render::render: an empty div without contents, else the preview div     *)
(* with one child per top-level block.                                     *)
RenderTakesContents(v) ==
    /\ view[v] = "alive"
    /\ last_render' = [last_render EXCEPT ![v] =
          IF ~IsSome(contents[v])
          THEN [element |-> "empty_div", calls |-> <<>>]
          ELSE [element |-> "markdown-preview-example",
                calls |-> RenderChildren(Unwrap(contents[v]).children)]]
    /\ contents' = [contents EXCEPT ![v] = None]
    /\ notified' = [notified EXCEPT ![v] = FALSE]
    /\ UNCHANGED <<view, raw_text, parsing_markdown_task, parsed, task,
                   deliveries>>

Render(v) ==
    /\ view[v] = "alive"
    /\ last_render' = [last_render EXCEPT ![v] =
          IF ~IsSome(contents[v])
          THEN [element |-> "empty_div", calls |-> <<>>]
          ELSE [element |-> "markdown-preview-example",
                calls |-> RenderChildren(Unwrap(contents[v]).children)]]
    /\ notified' = [notified EXCEPT ![v] = FALSE]
    /\ UNCHANGED <<view, raw_text, contents, parsing_markdown_task, parsed,
                   task, deliveries>>

Next ==
    \E v \in Views :
        \/ \E text \in Texts : From(v, text)
        \/ BackgroundParse(v)
        \/ Deliver(v)
        \/ DropView(v)
        \/ ReleaseEntity(v)
        \/ Render(v)

Spec == Init /\ [][Next]_vars

\* main opens the window with its view; the background executor and the
\* interactive thread's executor run every task that is ready.
FairSpec ==
    Spec /\ \A v \in Views :
                /\ WF_vars(\E text \in Texts : From(v, text))
                /\ WF_vars(BackgroundParse(v))
                /\ WF_vars(Deliver(v))

----------------------------------------------------------------------------
(* The states of a view the consumer can tell apart by its two Options.    *)

ParseInProgress(v) ==
    Live(v) /\ ~IsSome(contents[v]) /\ IsSome(parsing_markdown_task[v])

ParseComplete(v) ==
    Live(v) /\ IsSome(contents[v]) /\ ~IsSome(parsing_markdown_task[v])

\* Without content and distinct from both of the above.
NoContentYet(v) ==
    Live(v) /\ ~IsSome(contents[v]) /\ ~IsSome(parsing_markdown_task[v])

----------------------------------------------------------------------------
(* C1: the parse result is delivered to the view exactly once: the update  *)
(* closure never runs a second time, contents is Some exactly when it has  *)
(* run, and under fair scheduling a view that stays alive gets its one     *)
(* delivery.                                                               *)
DeliveredExactlyOnce ==
    /\ [](\A v \in Views :
            /\ deliveries[v] <= 1
            /\ Live(v) => (IsSome(contents[v]) <=> deliveries[v] = 1))
    /\ \A v \in Views :
           (view[v] = "alive") ~> (deliveries[v] = 1 \/ view[v] # "alive")

DeliveredOnceReached ==
    \E v \in Views :
        view[v] = "alive" /\ deliveries[v] = 1 /\ IsSome(contents[v])
        /\ task[v] = "ok_discarded"

(* C3 as stated: besides "parse in progress" and "parse complete" a third  *)
(* valuation of (contents, parsing_markdown_task), "no content yet", is    *)
(* observed in the life of a view that is not destroyed.                   *)
ThreeObservableStates ==
    (\A v \in Views : [](view[v] \notin {"dropped", "released"}))
        => <>(\E v \in Views : NoContentYet(v))

(* C3 amended: a live view is observable in two states only; a view        *)
(* without content is always a view whose parse is in progress.            *)
TwoObservableStates ==
    \A v \in Views :
        (Live(v) /\ ~IsSome(contents[v])) => ParseInProgress(v)

\* Both states observed: drawn empty while in progress, complete now.
BothStatesObserved ==
    \E v \in Views :
        ParseComplete(v) /\ last_render[v].element = "empty_div"

(* C4: once the view is destroyed no step assigns contents or runs the     *)
(* delivery closure; when the entity is released the task has either       *)
(* failed its update or been cancelled, and the parsed document is gone.   *)
NoWriteAfterDestroy ==
    /\ [][\A v \in Views :
            view[v] \in {"dropped", "released"} =>
                /\ deliveries'[v] = deliveries[v]
                /\ contents'[v] = contents[v] \/ contents'[v] = None
                /\ raw_text'[v] = raw_text[v] \/ view'[v] = "released"]_vars
    /\ [](\A v \in Views :
            view[v] = "released" =>
                /\ task[v] \in {"cancelled", "err_discarded", "ok_discarded"}
                /\ parsed[v].content = None
                /\ contents[v] = None)

\* The task found the view gone while its parse was in flight.
UpdateFailedOnDroppedView ==
    \E v \in Views :
        view[v] = "dropped" /\ task[v] = "err_stored" /\ contents[v] = None

(* C5: an Err returned by the delivery update is observed by some caller   *)
(* and never destroyed unread.                                             *)
DeliveryErrorObserved ==
    \A v \in Views : task[v] # "err_discarded"

(* C6: under fair scheduling a view that is not destroyed reaches the      *)
(* parse-complete state, and the step that publishes contents notifies.    *)
EventuallyComplete ==
    /\ \A v \in Views :
           (view[v] = "alive") ~> (ParseComplete(v) \/ view[v] # "alive")
    /\ [][\A v \in Views :
            (~IsSome(contents[v]) /\ IsSome(contents'[v])) => notified'[v]]_vars

CompleteAndNotified ==
    \E v \in Views : view[v] = "alive" /\ ParseComplete(v) /\ notified[v]

(* C7: a render pass calls render_markdown_block once per top-level block  *)
(* of contents, in document order; without contents it calls it zero       *)
(* times and returns the empty element.                                    *)
RenderOncePerBlock ==
    [][\A v \in Views :
         last_render'[v] # last_render[v] =>
            LET r == last_render'[v]
            IN  IF contents[v] = None
                THEN r.element = "empty_div" /\ r.calls = <<>>
                ELSE LET children == contents[v][1].children
                     IN  /\ r.element = "markdown-preview-example"
                         /\ Len(r.calls) = Len(children)
                         /\ \A i \in 1..Len(children) :
                                r.calls[i] = children[i]]_vars

RenderedSeveralBlocks ==
    \E v \in Views :
        /\ last_render[v].element = "markdown-preview-example"
        /\ Len(last_render[v].calls) >= 2

(* C8: once contents is Some no step changes it until the entity is        *)
(* released, and the only step that writes a value into contents is the    *)
(* delivery update.                                                        *)
ContentsImmutable ==
    [][\A v \in Views :
         /\ (IsSome(contents[v]) /\ view'[v] # "released") =>
                contents'[v] = contents[v]
         /\ contents'[v] # contents[v] =>
                \/ deliveries'[v] = deliveries[v] + 1
                \/ view'[v] = "released"]_vars

RenderedAfterPublish ==
    \E v \in Views :
        /\ IsSome(contents[v])
        /\ last_render[v].element = "markdown-preview-example"
        /\ ~notified[v]

(* C9: in a live view exactly one of contents and parsing_markdown_task    *)
(* is Some.                                                                *)
ExactlyOneOfContentsAndTask ==
    \A v \in Views :
        Live(v) => (IsSome(contents[v]) # IsSome(parsing_markdown_task[v]))

TaskClearedOnDelivery ==
    \E v \in Views :
        view[v] = "dropped" /\ IsSome(contents[v])
        /\ ~IsSome(parsing_markdown_task[v])

(* C10: contents, when Some, is the parse of the text held in raw_text,    *)
(* and no step changes raw_text while the struct exists.                   *)
ContentsFromRawText ==
    /\ [](\A v \in Views :
            IsSome(contents[v]) =>
                contents[v] = Some(parse_markdown(raw_text[v])))
    /\ [][\A v \in Views :
            (Live(v) /\ view'[v] # "released") =>
                raw_text'[v] = raw_text[v]]_vars

ContentsOfNonEmptyText ==
    \E v \in Views :
        /\ IsSome(contents[v])
        /\ Len(raw_text[v]) = MaxLen
        /\ Len(Unwrap(contents[v]).children) >= 2

=============================================================================
